---- MODULE Spec2Model ----
(***************************************************************************)
(* A model of selfdrive/ui/ui.cc: the per-tick scene update                *)
(* (QUIState::update = update_params, update_sockets, update_state,        *)
(* update_status, update_vision, timer pacing) followed by the Device      *)
(* slot (Device::update = updateBrightness, updateWakefulness), together   *)
(* with the pure helpers get_path_length_idx and update_line_data.         *)
(*                                                                         *)
(* Units.  Time is counted in tenths of a second, so fade_duration (0.3 s) *)
(* is 3 and a fade value f of the source is stored as f * fade_duration    *)
(* (FadeOne stands for 1.0).  Forward distances of model curves are in     *)
(* decimetres.  Inertial sensor values are in hundredths.  Grades are      *)
(* exact rationals <<numerator, denominator>>; floating-point rounding is  *)
(* not modelled.                                                           *)
(***************************************************************************)
EXTENDS Integers, Sequences, FiniteSets, Bags, TLC

\* ------------------------------------------------------------------------
\* Sizes and rates that ui.h fixes (the header is not part of src/); the
\* model is parametric in them.
TRAJECTORY_SIZE == 4
UI_FREQ == 2
NumLaneLines == 2
NumRoadEdges == 1
MIN_DRAW_DISTANCE == 100
MAX_DRAW_DISTANCE == 300
percentGradeLenStep == 1
paramsCheckFreq == 1

\* Program constants set in ui.cc.
BACKLIGHT_OFFROAD == 75
fade_duration == 3
percentGradeNumSamples == 5
SessionFadeDelay == 100
PandaStaleFactor == 5
AwakeSeconds == 30
AccelThreshold == 20
GyroThreshold == 15
LeadProbThreshold == 50
LeadShortenMax == 100
VCruiseLow == 5
BrightnessMin == 10
BrightnessMax == 100
CieLinearMax == 8
BACKLIGHT_DT == 5
BACKLIGHT_TS == 1000

FadeOne == fade_duration
AwakeTicks == AwakeSeconds * UI_FREQ
accel_samples == 5 * UI_FREQ

\* ------------------------------------------------------------------------
\* Arithmetic helpers.
Min(a, b) == IF a < b THEN a ELSE b
Max(a, b) == IF a > b THEN a ELSE b
Abs(a) == IF a < 0 THEN -a ELSE a
Clamp(x, lo, hi) == IF x < lo THEN lo ELSE IF hi < x THEN hi ELSE x

\* Division truncating toward zero, as C++ integer and fixed-point division.
TruncDiv(a, b) == IF a >= 0 THEN a \div b ELSE -((-a) \div b)

RECURSIVE Gcd(_, _)
Gcd(a, b) == IF b = 0 THEN a ELSE Gcd(b, a % b)

\* Exact rationals <<n, d>> with d > 0, in lowest terms.
RNorm(n, d) ==
  LET s == IF d < 0 THEN -1 ELSE 1
      g == Gcd(Abs(n), Abs(d))
  IN  IF n = 0 THEN <<0, 1>> ELSE <<(s * n) \div g, (s * d) \div g>>
RZero == <<0, 1>>
RAdd(p, q) == RNorm(p[1] * q[2] + q[1] * p[2], p[2] * q[2])
RSub(p, q) == RNorm(p[1] * q[2] - q[1] * p[2], p[2] * q[2])
RDivInt(p, k) == RNorm(p[1], p[2] * k)

\* ------------------------------------------------------------------------
\* Pure helpers of the path geometry.

\* A curve is the sequence of its forward distances; index i of the source is
\* element i + 1.
LineX(line, i) == line[i + 1]

RECURSIVE PathLengthScan(_, _, _, _)
PathLengthScan(line, path_height, i, max_idx) ==
  IF i < TRAJECTORY_SIZE /\ LineX(line, i) < path_height
  THEN PathLengthScan(line, path_height, i + 1, i)
  ELSE max_idx

MutScanLeq(line, path_height) ==
  LET below == {i \in 0..(TRAJECTORY_SIZE - 1) : LineX(line, i) <= path_height}
  IN  IF below = {} THEN 0 ELSE CHOOSE i \in below : \A j \in below : j <= i

get_path_length_idx(line, path_height) == PathLengthScan(line, path_height, 0, 0)

\* The points update_line_data projects, in order: indices 0..max_idx with
\* the lateral offset subtracted, then max_idx..0 with it added.
LinePoints(max_idx) ==
  [k \in 1..(2 * (max_idx + 1)) |->
     IF k <= max_idx + 1 THEN [i |-> k - 1, side |-> -1]
                         ELSE [i |-> 2 * (max_idx + 1) - k, side |-> 1]]

\* calib_frame_to_full_frame: the projected point is kept symbolically (the
\* source point, the lateral side and the calibration in force); whether it
\* falls inside the margin is the outcome vis of the floating-point
\* projection.  The function writes *out whatever the outcome.
calib_frame_to_full_frame(calib, x, pt, vis) ==
  [out |-> [x |-> x, i |-> pt.i, side |-> pt.side, calib |-> calib],
   visible |-> vis[pt]]

LineCapacity == 2 * TRAJECTORY_SIZE

\* The loop of update_line_data from projected point k on: v is the buffer
\* (a sequence whose length is the offset of the write pointer), writes the
\* set of offsets written so far.
RECURSIVE LineDataLoop(_, _, _, _, _, _, _)
LineDataLoop(calib, line, vis, pts, k, v, writes) ==
  IF k > Len(pts) THEN [v |-> v, cnt |-> Len(v), writes |-> writes]
  ELSE LET r == calib_frame_to_full_frame(calib, LineX(line, pts[k].i), pts[k], vis)
       IN  LineDataLoop(calib, line, vis, pts, k + 1,
                        IF r.visible THEN Append(v, r.out) ELSE v,
                        writes \cup {Len(v)})

MutLineDataOneMore(calib, line, vis, max_idx) ==
  LineDataLoop(calib, line, vis,
               LinePoints(max_idx) \o <<[i |-> 0, side |-> 1]>>, 1, <<>>, {})

update_line_data(calib, line, vis, max_idx) ==
  LineDataLoop(calib, line, vis, LinePoints(max_idx), 1, <<>>, {})

\* ------------------------------------------------------------------------
\* State.
VARIABLES
  now,     \* seconds_since_boot() read by the last tick, in tenths of a second
  sm,      \* SubMaster: frame, rcv_frame and the last message of each topic read
  scene,   \* UIScene
  ui,      \* UIState outside the scene, and update_status's static started_prev
  qui,     \* QUIState: started_prev, the timer interval, the signals of the last tick
  device,  \* Device
  hw,      \* display hardware behind Hardware::set_display_power / set_brightness
  ev,      \* what the last tick observed (inputs and intermediate values)
  call     \* harness of the pure helpers: arguments and result

vars == <<now, sm, scene, ui, qui, device, hw, ev, call>>

Topics == {"modelV2", "controlsState", "liveCalibration", "deviceState",
           "roadCameraState", "pandaState", "sensorEvents", "carState",
           "radarState", "ubloxGnss", "gpsLocationExternal"}

STATUS_DISENGAGED == "DISENGAGED"
STATUS_ENGAGED == "ENGAGED"
STATUS_WARNING == "WARNING"
STATUS_ALERT == "ALERT"

PandaUnknown == "UNKNOWN"

EmptyLine == [v |-> <<>>, cnt |-> 0]
ZeroVertex == [x |-> 0, i |-> 0, side |-> 0, calib |-> 0]
ZeroGrades == [i \in 0..(percentGradeNumSamples - 1) |-> RZero]
ZeroSamples == [i \in 0..(percentGradeNumSamples - 1) |-> 0]

\* Default (never received) messages.
NoCarState == [brake |-> 0, onePedal |-> FALSE, vEgo |-> 0]
NoControlsState == [alert |-> "NORMAL", enabled |-> FALSE, vCruise |-> 0,
                    engageable |-> FALSE]
NoPandaState == [ignitionLine |-> FALSE, ignitionCan |-> FALSE, pandaType |-> PandaUnknown]
NoDeviceState == [started |-> FALSE]
FlatCurve == [k \in 1..TRAJECTORY_SIZE |-> 0]
NoLead == [prob |-> 0, x |-> 0]
NoModel == [position |-> FlatCurve,
            lane_lines |-> [c \in 1..NumLaneLines |-> FlatCurve],
            road_edges |-> [c \in 1..NumRoadEdges |-> FlatCurve],
            leads |-> <<NoLead, NoLead>>]
NoParams == [OnePedalMode |-> FALSE, DisableDisengageOnGas |-> FALSE,
             FrictionBrakePercent |-> 0, EnableWideCamera |-> FALSE]
AllPoints == (0..(TRAJECTORY_SIZE - 1)) \X {-1, 0, 1}
PointOf(q) == [i |-> q[1], side |-> q[2]]
VisAll == [p \in {PointOf(q) : q \in AllPoints} |-> TRUE]
VisNone == [p \in {PointOf(q) : q \in AllPoints} |-> FALSE]

\* One poll: the elapsed time, the topics that delivered a message, the
\* messages, the values of the parameter store, and the outcomes of the
\* external calls of the tick.
NoInput ==
  [dt |-> 1, upd |-> {},
   carState |-> NoCarState, controlsState |-> NoControlsState,
   pandaState |-> NoPandaState, deviceState |-> NoDeviceState,
   liveCalibration |-> 1, modelV2 |-> NoModel, sensorEvents |-> <<>>,
   roadCameraState |-> 0, gpsLocationExternal |-> 0, radarState |-> 0,
   params |-> NoParams, connect_ok |-> TRUE, vis |-> VisAll]

InitSm ==
  [frame |-> 0,
   rcv_frame |-> [pandaState |-> 0, liveCalibration |-> 0],
   controlsState |-> NoControlsState,
   deviceState |-> NoDeviceState,
   pandaState |-> NoPandaState,
   gpsLocationExternal |-> 0]

InitScene(alpha, fade) ==
  [started |-> FALSE, ignition |-> FALSE, pandaType |-> PandaUnknown,
   engageable |-> FALSE, controls_vCruise |-> 0,
   paramsCheckLast |-> 0,
   onePedalModeActive |-> FALSE, disableDisengageOnGasEnabled |-> FALSE,
   brake_percent |-> 0,
   brake_indicator_alpha |-> alpha, brake_indicator_last_t |-> 0,
   one_pedal_fade |-> fade, one_pedal_fade_last_t |-> 0,
   percentGradeCurDist |-> 0, percentGradeLastTime |-> 0,
   percentGradeAltitudes |-> ZeroSamples, percentGradePositions |-> ZeroSamples,
   percentGrades |-> ZeroGrades, percentGradeRollingIter |-> 0,
   percentGradeIterRolled |-> FALSE, percentGrade |-> RZero,
   altitudeUblox |-> 0, lead_d_rel |-> 0, light_sensor |-> 0,
   accel_sensor |-> 0, gyro_sensor |-> 0,
   started_frame |-> 0, sessionInitTime |-> 0,
   world_objects_visible |-> FALSE, view_from_calib |-> 0,
   lane_line_vertices |-> [c \in 1..NumLaneLines |-> EmptyLine],
   road_edge_vertices |-> [c \in 1..NumRoadEdges |-> EmptyLine],
   track_vertices |-> EmptyLine,
   lead_vertices |-> <<ZeroVertex, ZeroVertex>>]

InitUi ==
  [status |-> STATUS_DISENGAGED, vg |-> FALSE, wide_camera |-> FALSE,
   vipc_client |-> "rear",
   connected |-> [c \in {"rear", "wide"} |-> FALSE],
   started_prev |-> FALSE]

InitQui == [started_prev |-> FALSE, timer |-> 0, offroadTransition |-> "none"]

InitDevice ==
  [awake |-> FALSE, awake_timeout |-> 0, accel_prev |-> 0, gyro_prev |-> 0,
   last_brightness |-> 0, brightness_filter |-> 1000 * BACKLIGHT_OFFROAD]

\* brightness is the value the backlight holds (-1: never written by this
\* program), pending the bag of values of the set_brightness threads that
\* have been started and have not run yet, issued the number of threads the
\* last tick started.
InitHw ==
  [display_power |-> FALSE, power_calls |-> 0, notify_calls |-> 0,
   brightness |-> 0 - 1, pending |-> EmptyBag, issued |-> 0]

NoEv ==
  [tick |-> FALSE, should_wake |-> FALSE, accel_trigger |-> FALSE,
   gyro_trigger |-> FALSE, awake_before |-> FALSE, on |-> FALSE,
   quiet |-> 0 - 1, upd |-> {}, dt |-> 0, pre |-> [scene |-> InitScene(0, 0), ui |-> InitUi]]

NoCall == [op |-> "none"]

\* ------------------------------------------------------------------------
\* update_sockets: SubMaster::update(0).  The frame counter advances and
\* every topic that delivered replaces its cached message.
Updated(in, topic) == topic \in in.upd

update_sockets(s, in) ==
  LET frame == s.frame + 1
  IN  [frame |-> frame,
       rcv_frame |-> [k \in DOMAIN s.rcv_frame |->
                        IF Updated(in, k) THEN frame ELSE s.rcv_frame[k]],
       controlsState |-> IF Updated(in, "controlsState") THEN in.controlsState
                         ELSE s.controlsState,
       deviceState |-> IF Updated(in, "deviceState") THEN in.deviceState
                       ELSE s.deviceState,
       pandaState |-> IF Updated(in, "pandaState") THEN in.pandaState
                      ELSE s.pandaState,
       gpsLocationExternal |-> IF Updated(in, "gpsLocationExternal")
                               THEN in.gpsLocationExternal
                               ELSE s.gpsLocationExternal]

\* ------------------------------------------------------------------------
\* update_state, block by block.

PollParams(sc, in, t) ==
  IF t - sc.paramsCheckLast > paramsCheckFreq
  THEN [sc EXCEPT !.onePedalModeActive = in.params.OnePedalMode,
                  !.disableDisengageOnGasEnabled = in.params.DisableDisengageOnGas]
  ELSE sc

Engageability(sc, s) ==
  IF s.frame % (UI_FREQ \div 2) = 0
  THEN [sc EXCEPT !.engageable = s.controlsState.engageable]
  ELSE sc

ControlsUpdate(sc, s, in) ==
  IF sc.started /\ Updated(in, "controlsState")
  THEN [sc EXCEPT !.controls_vCruise = s.controlsState.vCruise]
  ELSE sc

\* Brake indicator fade: lines 162-173.
MutBrakeFadeNoClamp(sc, brake, t) ==
  LET dt == t - sc.brake_indicator_last_t
      alpha == sc.brake_indicator_alpha
  IN  [sc EXCEPT !.brake_percent = brake,
                 !.brake_indicator_alpha =
                    IF brake > 0 THEN alpha + dt
                    ELSE IF alpha > 0 THEN alpha - dt ELSE alpha,
                 !.brake_indicator_last_t = t]

BrakeFade(sc, brake, t) ==
  LET dt == t - sc.brake_indicator_last_t
      alpha == sc.brake_indicator_alpha
  IN  [sc EXCEPT !.brake_percent = brake,
                 !.brake_indicator_alpha =
                    IF brake > 0 THEN Min(alpha + dt, FadeOne)
                    ELSE IF alpha > 0 THEN Max(alpha - dt, 0) ELSE alpha,
                 !.brake_indicator_last_t = t]

\* Assist-mode (one-pedal) fade: lines 175-188.
OnePedalDrive(sc, status, car) ==
  \/ car.onePedal
  \/ /\ status = STATUS_DISENGAGED
     /\ sc.controls_vCruise < VCruiseLow
     /\ (sc.onePedalModeActive \/ sc.disableDisengageOnGasEnabled)

OnePedalFade(sc, status, car, t) ==
  LET dt == t - sc.one_pedal_fade_last_t
      fade == sc.one_pedal_fade
  IN  [sc EXCEPT !.one_pedal_fade =
                    IF t - sc.sessionInitTime > SessionFadeDelay
                    THEN IF OnePedalDrive(sc, status, car)
                         THEN Min(fade + dt, FadeOne)
                         ELSE IF fade > -FadeOne THEN Max(fade - dt, -FadeOne)
                         ELSE fade
                    ELSE fade,
                 !.one_pedal_fade_last_t = t]

\* Rolling grade estimator: lines 205-244.
GradeRatio(alts, poss, i) ==
  LET j == (i + 1) % percentGradeNumSamples
  IN  [rise |-> alts[i] - alts[j], run |-> poss[i] - poss[j]]

PercentOf(r) == RNorm(r.rise * 100, r.run)

\* The loop of lines 215-222 from slot i on: grades and the running sum u.
RECURSIVE InitialGradeLoop(_, _, _, _, _)
InitialGradeLoop(alts, poss, grades, i, u) ==
  IF i >= percentGradeNumSamples THEN [grades |-> grades, u |-> u]
  ELSE LET r == GradeRatio(alts, poss, i)
       IN  IF r.run # 0
           THEN InitialGradeLoop(alts, poss, [grades EXCEPT ![i] = PercentOf(r)],
                                 i + 1, RAdd(u, PercentOf(r)))
           ELSE InitialGradeLoop(alts, poss, grades, i + 1, u)

InitialGrades(alts, poss, grades) ==
  LET r == InitialGradeLoop(alts, poss, grades, 0, RZero)
  IN  [grades |-> r.grades, mean |-> RDivInt(r.u, percentGradeNumSamples)]

MutGradeSampleEveryWrap(sc, cur) ==
  LET N == percentGradeNumSamples
      prevDist == sc.percentGradePositions[sc.percentGradeRollingIter]
      it1 == sc.percentGradeRollingIter + 1
      wrap == it1 >= N
      firstFill == wrap
      init == InitialGrades(sc.percentGradeAltitudes, sc.percentGradePositions,
                            sc.percentGrades)
      grades1 == IF firstFill THEN init.grades ELSE sc.percentGrades
      mean1 == IF firstFill THEN init.mean ELSE sc.percentGrade
      rolled == sc.percentGradeIterRolled \/ wrap
      it == IF wrap THEN 0 ELSE it1
      alts == [sc.percentGradeAltitudes EXCEPT ![it] = sc.altitudeUblox]
      poss == [sc.percentGradePositions EXCEPT ![it] = prevDist + cur]
      r == GradeRatio(alts, poss, it)
      incr == rolled /\ r.run # 0
      newGrade == PercentOf(r)
  IN  [sc EXCEPT !.percentGradeRollingIter = it,
                 !.percentGradeIterRolled = rolled,
                 !.percentGradeAltitudes = alts,
                 !.percentGradePositions = poss,
                 !.percentGrade =
                    IF incr THEN RAdd(RSub(mean1, RDivInt(grades1[it], N)),
                                      RDivInt(newGrade, N))
                    ELSE mean1,
                 !.percentGrades =
                    IF incr THEN [grades1 EXCEPT ![it] = newGrade] ELSE grades1,
                 !.percentGradeCurDist = 0]

\* Lines 208-241, entered with percentGradeCurDist = cur > percentGradeLenStep.
GradeSample(sc, cur) ==
  LET N == percentGradeNumSamples
      prevDist == sc.percentGradePositions[sc.percentGradeRollingIter]
      it1 == sc.percentGradeRollingIter + 1
      wrap == it1 >= N
      firstFill == wrap /\ ~sc.percentGradeIterRolled
      init == InitialGrades(sc.percentGradeAltitudes, sc.percentGradePositions,
                            sc.percentGrades)
      grades1 == IF firstFill THEN init.grades ELSE sc.percentGrades
      mean1 == IF firstFill THEN init.mean ELSE sc.percentGrade
      rolled == sc.percentGradeIterRolled \/ wrap
      it == IF wrap THEN 0 ELSE it1
      alts == [sc.percentGradeAltitudes EXCEPT ![it] = sc.altitudeUblox]
      poss == [sc.percentGradePositions EXCEPT ![it] = prevDist + cur]
      r == GradeRatio(alts, poss, it)
      incr == rolled /\ r.run # 0
      newGrade == PercentOf(r)
  IN  [sc EXCEPT !.percentGradeRollingIter = it,
                 !.percentGradeIterRolled = rolled,
                 !.percentGradeAltitudes = alts,
                 !.percentGradePositions = poss,
                 !.percentGrade =
                    IF incr THEN RAdd(RSub(mean1, RDivInt(grades1[it], N)),
                                      RDivInt(newGrade, N))
                    ELSE mean1,
                 !.percentGrades =
                    IF incr THEN [grades1 EXCEPT ![it] = newGrade] ELSE grades1,
                 !.percentGradeCurDist = 0]

RecordGrade(sc, vEgo, t) ==
  LET cur == sc.percentGradeCurDist + vEgo * (t - sc.percentGradeLastTime)
      sc1 == IF vEgo > 0
             THEN IF cur > percentGradeLenStep THEN GradeSample(sc, cur)
                  ELSE [sc EXCEPT !.percentGradeCurDist = cur]
             ELSE sc
  IN  [sc1 EXCEPT !.percentGradeLastTime = t]

CarStateUpdate(sc, status, in, t) ==
  IF Updated(in, "carState")
  THEN RecordGrade(OnePedalFade(BrakeFade(sc, in.carState.brake, t),
                                status, in.carState, t),
                   in.carState.vEgo, t)
  ELSE sc

RadarUpdate(sc, in) ==
  IF Updated(in, "radarState") THEN [sc EXCEPT !.lead_d_rel = in.radarState] ELSE sc

\* update_model: lines 97-131.  A stored line keeps v and cnt only.
Stored(r) == [v |-> r.v, cnt |-> r.cnt]

LaneHorizon(model) ==
  Clamp(LineX(model.position, TRAJECTORY_SIZE - 1), MIN_DRAW_DISTANCE, MAX_DRAW_DISTANCE)

MutHorizonNoShortenCap(model) ==
  LET lead_one == model.leads[1]
      lead_d == lead_one.x * 2
  IN  IF lead_one.prob > LeadProbThreshold
      THEN Clamp(lead_d - (35 * lead_d) \div 100, 0, LaneHorizon(model))
      ELSE LaneHorizon(model)

PathHorizon(model) ==
  LET lead_one == model.leads[1]
      lead_d == lead_one.x * 2
  IN  IF lead_one.prob > LeadProbThreshold
      THEN Clamp(lead_d - Min((35 * lead_d) \div 100, LeadShortenMax), 0, LaneHorizon(model))
      ELSE LaneHorizon(model)

update_model(sc, model, vis) ==
  LET calib == sc.view_from_calib
      max_idx == get_path_length_idx(model.lane_lines[1], LaneHorizon(model))
      path_idx == get_path_length_idx(model.position, PathHorizon(model))
  IN  [sc EXCEPT
         !.lane_line_vertices =
            [c \in 1..NumLaneLines |->
               Stored(update_line_data(calib, model.lane_lines[c], vis, max_idx))],
         !.road_edge_vertices =
            [c \in 1..NumRoadEdges |->
               Stored(update_line_data(calib, model.road_edges[c], vis, max_idx))],
         !.track_vertices =
            Stored(update_line_data(calib, model.position, vis, path_idx))]

\* update_leads: lines 72-81.
update_leads(sc, model, vis) ==
  [sc EXCEPT !.lead_vertices =
     [k \in 1..2 |->
        IF model.leads[k].prob > LeadProbThreshold
        THEN calib_frame_to_full_frame(
               sc.view_from_calib, model.leads[k].x,
               [i |-> get_path_length_idx(model.position, model.leads[k].x), side |-> 0],
               vis).out
        ELSE sc.lead_vertices[k]]]

MutModelUpdateAlways(sc, vg, in) ==
  IF Updated(in, "modelV2")
  THEN update_leads(update_model(sc, in.modelV2, in.vis), in.modelV2, in.vis)
  ELSE sc

\* Lines 253-257.
ModelUpdate(sc, vg, in) ==
  IF Updated(in, "modelV2") /\ vg
  THEN update_leads(update_model(sc, in.modelV2, in.vis), in.modelV2, in.vis)
  ELSE sc

\* Lines 258-274: the rotation is kept as the rpy triple it is built from.
CalibrationUpdate(sc, in) ==
  IF Updated(in, "liveCalibration")
  THEN [sc EXCEPT !.world_objects_visible = TRUE,
                  !.view_from_calib = in.liveCalibration]
  ELSE sc

MutPandaStaleClearsIgnition(sc, s, in) ==
  IF Updated(in, "pandaState")
  THEN [sc EXCEPT !.pandaType = s.pandaState.pandaType,
                  !.ignition = s.pandaState.ignitionLine \/ s.pandaState.ignitionCan]
  ELSE IF s.frame - s.rcv_frame.pandaState > PandaStaleFactor * UI_FREQ
       THEN [sc EXCEPT !.pandaType = PandaUnknown, !.ignition = FALSE]
       ELSE sc

\* Lines 275-281.
PandaUpdate(sc, s, in) ==
  IF Updated(in, "pandaState")
  THEN [sc EXCEPT !.pandaType = s.pandaState.pandaType,
                  !.ignition = s.pandaState.ignitionLine \/ s.pandaState.ignitionCan]
  ELSE IF s.frame - s.rcv_frame.pandaState > PandaStaleFactor * UI_FREQ
       THEN [sc EXCEPT !.pandaType = PandaUnknown]
       ELSE sc

\* Lines 285-299: one sensor event; has is false for an empty value list.
SensorEvent(sc, e) ==
  IF ~sc.started /\ e.which = "acceleration"
  THEN IF e.has THEN [sc EXCEPT !.accel_sensor = e.v] ELSE sc
  ELSE IF ~sc.started /\ e.which = "gyroUncalibrated"
       THEN IF e.has THEN [sc EXCEPT !.gyro_sensor = e.v] ELSE sc
       ELSE sc

RECURSIVE SensorLoop(_, _, _)
SensorLoop(sc, events, k) ==
  IF k > Len(events) THEN sc ELSE SensorLoop(SensorEvent(sc, events[k]), events, k + 1)

SensorUpdate(sc, in) ==
  IF Updated(in, "sensorEvents") THEN SensorLoop(sc, in.sensorEvents, 1) ELSE sc

\* Lines 300-314: the message carries ev as a percentage of max_ev; the
\* light estimate is kept in percent.
CameraUpdate(sc, in) ==
  IF Updated(in, "roadCameraState")
  THEN [sc EXCEPT !.light_sensor = Clamp(100 - in.roadCameraState, 0, 100)]
  ELSE sc

MutStartedIgnoresIgnition(sc, s) ==
  [sc EXCEPT !.started = s.deviceState.started]

\* Line 315.
StartedUpdate(sc, s) ==
  [sc EXCEPT !.started = s.deviceState.started /\ sc.ignition]

\* Lines 331-340.
GnssUpdate(sc, s, in) ==
  IF Updated(in, "ubloxGnss")
  THEN [sc EXCEPT !.altitudeUblox = s.gpsLocationExternal]
  ELSE sc

\* update_state: lines 137-363, in source order.  s is the SubMaster after
\* the poll, status and vg are s->status and s->vg.
update_state(sc, status, vg, s, in, t) ==
  LET a == PollParams(sc, in, t)
      b == Engageability(a, s)
      c == ControlsUpdate(b, s, in)
      d == CarStateUpdate(c, status, in, t)
      e == RadarUpdate(d, in)
      f == ModelUpdate(e, vg, in)
      g == CalibrationUpdate(f, in)
      h == PandaUpdate(g, s, in)
      i == SensorUpdate(h, in)
      j == CameraUpdate(i, in)
      k == StartedUpdate(j, s)
  IN  GnssUpdate(k, s, in)

\* ------------------------------------------------------------------------
\* update_status: lines 392-456.  Works on [ui, scene].

StatusOf(cs) ==
  IF cs.alert = "USER_PROMPT" THEN STATUS_WARNING
  ELSE IF cs.alert = "CRITICAL" THEN STATUS_ALERT
  ELSE IF cs.enabled THEN STATUS_ENGAGED ELSE STATUS_DISENGAGED

\* Lines 418-425.
ResetGrade(sc) ==
  [sc EXCEPT !.percentGrade = RZero,
             !.percentGradeAltitudes = ZeroSamples,
             !.percentGradePositions = ZeroSamples,
             !.percentGrades = ZeroGrades,
             !.percentGradeIterRolled = FALSE,
             !.percentGradeRollingIter = 0]

MutEnterKeepsStatus(u, sc, s, in, t) ==
  [ui |-> [u EXCEPT !.wide_camera = in.params.EnableWideCamera,
                    !.vipc_client = IF in.params.EnableWideCamera THEN "wide" ELSE "rear"],
   scene |-> ResetGrade([sc EXCEPT !.started_frame = s.frame,
                                   !.brake_percent = in.params.FrictionBrakePercent,
                                   !.sessionInitTime = t])]

\* Lines 409-450: entering onroad.
EnterOnroad(u, sc, s, in, t) ==
  [ui |-> [u EXCEPT !.status = STATUS_DISENGAGED,
                    !.wide_camera = in.params.EnableWideCamera,
                    !.vipc_client = IF in.params.EnableWideCamera THEN "wide" ELSE "rear"],
   scene |-> ResetGrade([sc EXCEPT !.started_frame = s.frame,
                                   !.brake_percent = in.params.FrictionBrakePercent,
                                   !.sessionInitTime = t])]

MutLeaveOnroadResets(u, sc) ==
  [ui |-> [u EXCEPT !.connected[u.vipc_client] = FALSE], scene |-> ResetGrade(sc)]

\* Lines 451-453: leaving onroad.
LeaveOnroad(u, sc) ==
  [ui |-> [u EXCEPT !.connected[u.vipc_client] = FALSE], scene |-> sc]

MutTransitionSwapped(u, sc, s, in, t) ==
  IF sc.started # u.started_prev
  THEN IF sc.started THEN LeaveOnroad(u, sc) ELSE EnterOnroad(u, sc, s, in, t)
  ELSE [ui |-> u, scene |-> sc]

\* Lines 406-454.
Transition(u, sc, s, in, t) ==
  IF sc.started # u.started_prev
  THEN IF sc.started THEN EnterOnroad(u, sc, s, in, t) ELSE LeaveOnroad(u, sc)
  ELSE [ui |-> u, scene |-> sc]

\* Lines 393-404.
StatusUpdate(u, sc, s, in) ==
  IF sc.started /\ Updated(in, "controlsState")
  THEN [u EXCEPT !.status = StatusOf(s.controlsState)]
  ELSE u

update_status(u, sc, s, in, t) ==
  LET r == Transition(StatusUpdate(u, sc, s, in), sc, s, in, t)
  IN  [ui |-> [r.ui EXCEPT !.started_prev = sc.started], scene |-> r.scene]

\* update_vision: lines 373-390, with ui_init_vision (lines 44-61).
update_vision(u, sc, in) ==
  IF ~u.connected[u.vipc_client] /\ sc.started /\ in.connect_ok
  THEN [ui |-> [u EXCEPT !.connected[u.vipc_client] = TRUE],
        scene |-> [sc EXCEPT !.world_objects_visible = FALSE]]
  ELSE [ui |-> u, scene |-> sc]

\* QUIState::update, lines 490-497: the transition signal and the timer.
TimerInterval(started) == IF started THEN 0 ELSE 1000 \div UI_FREQ

MutPacingNoFirstTick(q, started, frame) ==
  IF started # q.started_prev
  THEN [started_prev |-> started,
        timer |-> TimerInterval(started),
        offroadTransition |-> IF started THEN "onroad" ELSE "offroad"]
  ELSE [q EXCEPT !.offroadTransition = "none"]

Pacing(q, started, frame) ==
  IF started # q.started_prev \/ frame = 1
  THEN [started_prev |-> started,
        timer |-> TimerInterval(started),
        offroadTransition |-> IF started THEN "onroad" ELSE "offroad"]
  ELSE [q EXCEPT !.offroadTransition = "none"]

\* ------------------------------------------------------------------------
\* Device: lines 503-570.

\* Lines 529-543: the target of the brightness filter, in thousandths of a
\* percent, from the light estimate in percent.
\* Lines 532-536, times 100 (line 539): the response in thousandths of a
\* percent, the cube divided in two steps to stay within 32 bits.
CieResponse(light) ==
  IF light <= CieLinearMax
  THEN (100 * 1000 * 10 * light) \div 9033
  ELSE LET cube == (light + 16) * (light + 16) * (light + 16)
           den == 116 * 116 * 116
       IN  100 * ((cube * 1000) \div den) + (((cube * 1000) % den) * 100) \div den

MutTargetNoClamp(light, started) ==
  IF ~started THEN 1000 * BACKLIGHT_OFFROAD ELSE CieResponse(light)

BrightnessTarget(light, started) ==
  IF ~started THEN 1000 * BACKLIGHT_OFFROAD
  ELSE Clamp(CieResponse(light), 1000 * BrightnessMin, 1000 * BrightnessMax)

\* FirstOrderFilter::update with k = dt / (ts + dt), on thousandths.
FilterUpdate(x, target) ==
  (x * BACKLIGHT_TS + target * BACKLIGHT_DT) \div (BACKLIGHT_TS + BACKLIGHT_DT)

\* Lines 527-554.
updateBrightness(d, sc) ==
  LET x == FilterUpdate(d.brightness_filter, BrightnessTarget(sc.light_sensor, sc.started))
      brightness == IF ~d.awake THEN 0 ELSE x \div 1000
  IN  [d EXCEPT !.brightness_filter = x, !.last_brightness = brightness]

MutSetAwakeAlwaysPower(d, h, on, reset) ==
  [device |-> IF reset THEN [d EXCEPT !.awake = on, !.awake_timeout = AwakeTicks]
              ELSE [d EXCEPT !.awake = on],
   hw |-> [h EXCEPT !.display_power = on, !.power_calls = 1, !.notify_calls = 1]]

\* Lines 514-525, on [device, hw].
setAwake(d, h, on, reset) ==
  LET d1 == IF on # d.awake THEN [d EXCEPT !.awake = on] ELSE d
      h1 == IF on # d.awake
            THEN [h EXCEPT !.display_power = on, !.power_calls = 1,
                           !.notify_calls = 1]
            ELSE [h EXCEPT !.power_calls = 0, !.notify_calls = 0]
  IN  [device |-> IF reset THEN [d1 EXCEPT !.awake_timeout = AwakeTicks] ELSE d1,
       hw |-> h1]

\* Lines 559-564.
TapTriggers(d, sc) ==
  [accel |-> Abs(sc.accel_sensor - d.accel_prev) > AccelThreshold,
   gyro |-> Abs(sc.gyro_sensor - d.gyro_prev) > GyroThreshold]

ShouldWake(d, sc) ==
  \/ sc.started \/ sc.ignition
  \/ TapTriggers(d, sc).accel /\ TapTriggers(d, sc).gyro

MutTimeoutNoFloor(d) == d.awake_timeout - 1

\* Line 557.
TimeoutTick(d) == Max(d.awake_timeout - 1, 0)

\* Line 569: the first argument of setAwake, awake_timeout as a bool.
RequestedAwake(d) == TimeoutTick(d) # 0

MutWakeAfterReset(d, h, sc) ==
  LET d1 == [d EXCEPT !.awake_timeout = TimeoutTick(d)]
      d2 == IF sc.started \/ sc.ignition THEN d1
            ELSE [d1 EXCEPT
                    !.gyro_prev = sc.gyro_sensor,
                    !.accel_prev = TruncDiv(d.accel_prev * (accel_samples - 1)
                                              + sc.accel_sensor, accel_samples)]
  IN  setAwake(d2, h, ShouldWake(d, sc) \/ RequestedAwake(d), ShouldWake(d, sc))

\* Lines 556-570.
updateWakefulness(d, h, sc) ==
  LET d1 == [d EXCEPT !.awake_timeout = TimeoutTick(d)]
      d2 == IF sc.started \/ sc.ignition THEN d1
            ELSE [d1 EXCEPT
                    !.gyro_prev = sc.gyro_sensor,
                    !.accel_prev = TruncDiv(d.accel_prev * (accel_samples - 1)
                                              + sc.accel_sensor, accel_samples)]
  IN  setAwake(d2, h, RequestedAwake(d), ShouldWake(d, sc))

\* Lines 549-551: a detached thread per changed value.
SpawnSetBrightness(d, h, sc) ==
  IF updateBrightness(d, sc).last_brightness # d.last_brightness
  THEN [h EXCEPT !.pending = @ (+) SetToBag({updateBrightness(d, sc).last_brightness}),
                 !.issued = 1]
  ELSE [h EXCEPT !.issued = 0]

\* Lines 506-512.
DeviceUpdate(d, h, sc) ==
  updateWakefulness(updateBrightness(d, sc), SpawnSetBrightness(d, h, sc), sc)

\* ------------------------------------------------------------------------
\* One tick: QUIState::update (lines 483-501), whose uiUpdate signal runs
\* Device::update before the tick returns.  ev keeps what the tick saw: the
\* topics that delivered, [ui, scene] as they were when update_status
\* reached its transition handling, the values updateWakefulness computed,
\* and in quiet the number of ticks since the last one with a wake event
\* (-1 before the first wake event, counted up to 30 * UI_FREQ + 1).
TickEnd(in, t, s1, pre, vi, dv) ==
  /\ now' = t
  /\ sm' = s1
  /\ scene' = vi.scene
  /\ ui' = vi.ui
  /\ qui' = Pacing(qui, vi.scene.started, s1.frame)
  /\ device' = dv.device
  /\ hw' = dv.hw
  /\ ev' = [tick |-> TRUE,
            should_wake |-> ShouldWake(device, vi.scene),
            accel_trigger |-> TapTriggers(device, vi.scene).accel,
            gyro_trigger |-> TapTriggers(device, vi.scene).gyro,
            awake_before |-> device.awake,
            on |-> RequestedAwake(device),
            quiet |-> IF ShouldWake(device, vi.scene) THEN 0
                      ELSE IF ev.quiet < 0 THEN ev.quiet
                      ELSE Min(ev.quiet + 1, AwakeTicks + 1),
            upd |-> in.upd,
            dt |-> in.dt,
            pre |-> pre]
  /\ UNCHANGED call

\* uiUpdate: Device::update on the scene the tick produced.
TickDevice(in, t, s1, pre, vi) ==
  TickEnd(in, t, s1, pre, vi, DeviceUpdate(device, hw, vi.scene))

\* update_vision, line 488.
TickVision(in, t, s1, sc1, st) ==
  TickDevice(in, t, s1, [scene |-> sc1, ui |-> StatusUpdate(ui, sc1, s1, in)],
             update_vision(st.ui, st.scene, in))

\* update_status, line 487.
TickStatus(in, t, s1, sc1) ==
  TickVision(in, t, s1, sc1, update_status(ui, sc1, s1, in, t))

\* update_state, line 486.
TickState(in, t, s1) ==
  TickStatus(in, t, s1, update_state(scene, ui.status, ui.vg, s1, in, t))

\* update_sockets, line 485, at time t = now + dt.
Tick(in) == TickState(in, now + in.dt, update_sockets(sm, in))

\* The drawing context s->vg is created by the GL widget, outside ui.cc.
ui_nvg_init ==
  /\ ~ui.vg
  /\ ui' = [ui EXCEPT !.vg = TRUE]
  /\ UNCHANGED <<now, sm, scene, qui, device, hw, ev, call>>

InitFrom(sc, d) ==
  /\ now = 0
  /\ sm = InitSm
  /\ scene = sc
  /\ ui = InitUi
  /\ qui = InitQui
  /\ device = d
  /\ hw = [InitHw EXCEPT !.display_power = d.awake]
  /\ ev = NoEv

InitState(sc) == InitFrom(sc, InitDevice)

InitWith(sc) == InitState(sc) /\ call = NoCall

Init == InitWith(InitScene(0, 0))

\* ------------------------------------------------------------------------
\* Bounds of the explored runs.
MaxFrame == 4
MaxFrameGrade == 6
MaxFrameTaps == 3
MaxFrameDevice == 64
MaxFrameStale == 14
LongDt == 200
MaxX == 3
MaxLight == 100

\* ------------------------------------------------------------------------
\* Grade runs: vehicle-state updates at speed vEgo (a sample is recorded
\* once the distance passes percentGradeLenStep), altitude fixes, and the
\* onroad switch.
Onroad(in, b) ==
  [in EXCEPT !.upd = @ \cup {"deviceState", "pandaState"},
             !.deviceState = [started |-> b],
             !.pandaState = [ignitionLine |-> b, ignitionCan |-> FALSE,
                             pandaType |-> "DOS"]]

Drive(in, v) ==
  [in EXCEPT !.upd = @ \cup {"carState"}, !.carState.vEgo = v]

Altitude(in, a) ==
  [in EXCEPT !.upd = @ \cup {"ubloxGnss", "gpsLocationExternal"},
             !.gpsLocationExternal = a]

GradeDriveInputs ==
  {Altitude(Drive(NoInput, c[1]), c[2]) : c \in {<<2, 0>>, <<2, 1>>, <<3, 1>>}}

GradeInputs == GradeDriveInputs \cup {Onroad(NoInput, b) : b \in BOOLEAN}

NextGrade == sm.frame < MaxFrameGrade /\ \E in \in GradeInputs : Tick(in)

SpecGrade == Init /\ [][NextGrade]_vars

\* ------------------------------------------------------------------------
\* Rolling grade estimator.

GradeSlots == 0..(percentGradeNumSamples - 1)

\* The mean of the N rise/run ratios of the buffer as it stands, each slot
\* paired with its successor.
FullRecompute(sc) ==
  InitialGrades(sc.percentGradeAltitudes, sc.percentGradePositions, ZeroGrades).mean

RunsNonZero(sc) ==
  \A i \in GradeSlots :
    GradeRatio(sc.percentGradeAltitudes, sc.percentGradePositions, i).run # 0

GradeEmpty(sc) ==
  /\ sc.percentGrade = RZero
  /\ sc.percentGradeAltitudes = ZeroSamples
  /\ sc.percentGradePositions = ZeroSamples
  /\ sc.percentGrades = ZeroGrades
  /\ ~sc.percentGradeIterRolled
  /\ sc.percentGradeRollingIter = 0

\* C1: after warm-up the published mean grade equals the mean of the N
\* rise/run ratios between each slot and its successor in the buffer as it
\* stands, whenever those runs are non-zero.
C1_MeanIsFullRecompute ==
  (scene.percentGradeIterRolled /\ RunsNonZero(scene))
    => scene.percentGrade = FullRecompute(scene)

\* C2 as stated: leaving onroad resets the rolling-grade state, and a tick on
\* which started stays true does not.
C2_ResetOnLeavingOnroad ==
  [][/\ (scene.started /\ ~scene'.started) => GradeEmpty(scene')
     /\ (scene.started /\ scene'.started /\ ~GradeEmpty(scene)) => ~GradeEmpty(scene')]_vars

\* C2 amended: the rolling-grade state is reset by every tick on which started
\* goes false -> true, and a filled or part-filled buffer becomes empty on no
\* other tick (not on the true -> false transition, not while started stays
\* true).
C2_ResetOnEnteringOnroad ==
  [][/\ (~scene.started /\ scene'.started) => GradeEmpty(scene')
     /\ (~GradeEmpty(scene) /\ GradeEmpty(scene')) => (~scene.started /\ scene'.started)]_vars

\* A tick that entered onroad and emptied a buffer holding samples.
C2_Witness ==
  /\ ev.tick /\ scene.started /\ ~ev.pre.ui.started_prev
  /\ ~GradeEmpty(ev.pre.scene) /\ GradeEmpty(scene)

\* ------------------------------------------------------------------------
\* Fade runs: vehicle-state updates with the brake pressed or released and
\* the one-pedal flags set or clear, the OnePedalMode parameter, and elapsed
\* times from 0 to LongDt between ticks.  The fades start anywhere within
\* their ranges.
Car(in, brake, onePedal) ==
  [in EXCEPT !.upd = @ \cup {"carState"},
             !.carState = [brake |-> brake, onePedal |-> onePedal, vEgo |-> 0]]

FadeDts == {0, 2, LongDt}

FadeInputs ==
  {[Car(NoInput, c[1], c[2]) EXCEPT !.dt = d, !.params.OnePedalMode = c[3]] :
     c \in {<<0, FALSE, FALSE>>, <<1, FALSE, FALSE>>, <<0, TRUE, FALSE>>,
            <<1, FALSE, TRUE>>},
     d \in FadeDts}
  \cup {[NoInput EXCEPT !.dt = d] : d \in FadeDts}

InitFade ==
  \E alpha \in 0..FadeOne, fade \in (-FadeOne)..FadeOne :
    InitWith(InitScene(alpha, fade))

NextFade == sm.frame < MaxFrame /\ \E in \in FadeInputs : Tick(in)

SpecFade == InitFade /\ [][NextFade]_vars

\* C3: the brake fade stays within [0, 1] and the assist-mode fade within
\* [-1, 1], whatever the elapsed time between ticks.
C3_FadesBounded ==
  /\ scene.brake_indicator_alpha \in 0..FadeOne
  /\ scene.one_pedal_fade \in (-FadeOne)..FadeOne

\* A vehicle-state update after a delta longer than both fade ranges, with
\* the brake pressed and the assist mode inactive: both fades sit at the
\* bound they were driven to.
C3_Witness ==
  /\ "carState" \in ev.upd /\ ev.dt > 2 * FadeOne
  /\ scene.brake_percent > 0 /\ scene.brake_indicator_alpha = FadeOne
  /\ now - scene.sessionInitTime > SessionFadeDelay
  /\ scene.one_pedal_fade = -FadeOne

\* ------------------------------------------------------------------------
\* get_path_length_idx on its own: every curve of TRAJECTORY_SIZE forward
\* distances drawn from 0..MaxX (sorted or not) against every horizon.
Curves == [1..TRAJECTORY_SIZE -> 0..MaxX]
Horizons == 0..(MaxX + 1)

Idle == UNCHANGED <<now, sm, scene, ui, qui, device, hw, ev>>

InitPathIdx ==
  /\ InitState(InitScene(0, 0))
  /\ call \in {[op |-> "args", line |-> l, path_height |-> h, result |-> 0] :
                 l \in Curves, h \in Horizons}

CallPathLengthIdx ==
  /\ call.op = "args"
  /\ call' = [call EXCEPT !.op = "get_path_length_idx",
                          !.result = get_path_length_idx(call.line, call.path_height)]
  /\ Idle

SpecPathIdx == InitPathIdx /\ [][CallPathLengthIdx]_vars

Sorted(line) == \A i \in 1..(Len(line) - 1) : line[i] <= line[i + 1]

Below(line, h) == {i \in 0..(TRAJECTORY_SIZE - 1) : LineX(line, i) < h}

\* C4: on a curve sorted by forward distance the result is the largest index
\* whose distance is below the horizon, 0 when there is none; it is always
\* within 0..TRAJECTORY_SIZE-1.
C4_TruncationIndex ==
  call.op = "get_path_length_idx" =>
    /\ call.result \in 0..(TRAJECTORY_SIZE - 1)
    /\ Sorted(call.line) =>
         IF Below(call.line, call.path_height) = {} THEN call.result = 0
         ELSE /\ call.result \in Below(call.line, call.path_height)
              /\ \A i \in Below(call.line, call.path_height) : i <= call.result

\* A sorted curve cut strictly inside: points below the horizon, then a point
\* exactly on it.
C4_Witness ==
  /\ call.op = "get_path_length_idx" /\ Sorted(call.line)
  /\ call.result >= 1 /\ call.result < TRAJECTORY_SIZE - 1
  /\ LineX(call.line, call.result) < call.path_height
  /\ LineX(call.line, call.result + 1) = call.path_height

\* ------------------------------------------------------------------------
\* update_line_data on its own: every truncation index and every visibility
\* outcome of the projected points.
LinePts == {p \in DOMAIN VisAll : p.side # 0}
VisOutcomes ==
  {[p \in DOMAIN VisAll |-> IF p.side = 0 THEN TRUE ELSE f[p]] : f \in [LinePts -> BOOLEAN]}
RampCurve == [k \in 1..TRAJECTORY_SIZE |-> k]

InitLineData ==
  /\ InitState(InitScene(0, 0))
  /\ call \in {[op |-> "args", max_idx |-> m, vis |-> f,
                result |-> [v |-> <<>>, cnt |-> 0, writes |-> {}]] :
                 m \in 0..(TRAJECTORY_SIZE - 1), f \in VisOutcomes}

CallLineData ==
  /\ call.op = "args"
  /\ call' = [call EXCEPT !.op = "update_line_data",
                          !.result = update_line_data(1, RampCurve, call.vis, call.max_idx)]
  /\ Idle

SpecLineData == InitLineData /\ [][CallLineData]_vars

VisibleProjected(vis, max_idx) ==
  {p \in LinePts : p.i <= max_idx /\ vis[p]}

\* C8: cnt is the number of visible points among the 2*(max_idx+1) projected
\* ones, so cnt <= 2*max_idx + 2 <= capacity; every write lands inside the
\* buffer and the capacity assertion holds.
C8_LineDataWithinCapacity ==
  call.op = "update_line_data" =>
    /\ call.result.cnt = Cardinality(VisibleProjected(call.vis, call.max_idx))
    /\ call.result.cnt <= 2 * call.max_idx + 2
    /\ 2 * call.max_idx + 2 <= LineCapacity
    /\ \A w \in call.result.writes : w \in 0..(LineCapacity - 1)
    /\ call.result.cnt <= LineCapacity

\* The longest curve with every point visible: the buffer is filled exactly.
C8_Witness ==
  /\ call.op = "update_line_data"
  /\ call.max_idx = TRAJECTORY_SIZE - 1
  /\ call.result.cnt = LineCapacity
  /\ call.result.writes = 0..(LineCapacity - 1)

\* ------------------------------------------------------------------------
\* Lifecycle runs: the device-state and hardware-state topics arriving alone
\* or together, control-state and vehicle-state updates, calibration, and a
\* frame source that connects or fails to.
Device_(in, b) ==
  [in EXCEPT !.upd = @ \cup {"deviceState"}, !.deviceState = [started |-> b]]

Panda(in, line, can) ==
  [in EXCEPT !.upd = @ \cup {"pandaState"},
             !.pandaState = [ignitionLine |-> line, ignitionCan |-> can,
                             pandaType |-> "DOS"]]

Controls(in, alert, enabled) ==
  [in EXCEPT !.upd = @ \cup {"controlsState"},
             !.controlsState = [alert |-> alert, enabled |-> enabled,
                                vCruise |-> 40, engageable |-> TRUE]]

Calibration(in, rpy) ==
  [in EXCEPT !.upd = @ \cup {"liveCalibration"}, !.liveCalibration = rpy]

Braking(in) ==
  [in EXCEPT !.upd = @ \cup {"carState"},
             !.carState = [brake |-> 1, onePedal |-> FALSE, vEgo |-> 2]]

LifeInputs ==
  {NoInput,
   Device_(NoInput, TRUE), Device_(NoInput, FALSE),
   Panda(NoInput, FALSE, FALSE), Panda(NoInput, TRUE, FALSE),
   Panda(NoInput, FALSE, TRUE),
   Panda(Device_(NoInput, TRUE), TRUE, FALSE),
   [Panda(Device_(NoInput, TRUE), TRUE, FALSE) EXCEPT !.connect_ok = FALSE],
   Controls(NoInput, "CRITICAL", FALSE),
   Calibration(Braking(Controls(NoInput, "NORMAL", TRUE)), 1),
   Braking(Panda(NoInput, FALSE, FALSE))}

NextLife == sm.frame < MaxFrame /\ \E in \in LifeInputs : Tick(in)

Spec == Init /\ [][NextLife]_vars

\* C5: at the end of every tick started is the device-active flag of the
\* latest device-state value AND ignition, and ignition is the ignition
\* (line or CAN) of the most recent hardware-state message.
C5_StartedIsActiveAndIgnition ==
  /\ scene.started = (sm.deviceState.started /\ scene.ignition)
  /\ scene.ignition = (sm.pandaState.ignitionLine \/ sm.pandaState.ignitionCan)

\* Onroad entered on a tick that brought only the hardware state (ignition
\* over CAN); the device-active flag is the one cached from an earlier poll.
C5_Witness ==
  /\ ev.tick /\ scene.started /\ ~ev.pre.ui.started_prev
  /\ ev.upd = {"pandaState"}
  /\ sm.pandaState.ignitionCan /\ ~sm.pandaState.ignitionLine

WentOffroad == ev.tick /\ ev.pre.ui.started_prev /\ ~scene.started

\* C6: on the tick where started goes true -> false the transition handling
\* only marks the frame source not connected; the scene and the rest of
\* UIState are what they were when the handling began.
C6_LeavingOnlyDisconnects ==
  WentOffroad =>
    /\ scene = ev.pre.scene
    /\ ui = [ev.pre.ui EXCEPT !.connected[ev.pre.ui.vipc_client] = FALSE,
                              !.started_prev = FALSE]

\* Leaving onroad with a connected frame source, an engaged status, a
\* recorded grade sample, a raised brake fade and a received calibration.
C6_Witness ==
  /\ WentOffroad
  /\ ev.pre.ui.connected[ev.pre.ui.vipc_client]
  /\ ~ui.connected[ui.vipc_client]
  /\ ui.status = STATUS_ENGAGED
  /\ ~GradeEmpty(scene)
  /\ scene.brake_indicator_alpha > 0
  /\ scene.view_from_calib = 1
  /\ scene.sessionInitTime > 0 /\ scene.started_frame > 0

\* ------------------------------------------------------------------------
\* Model runs: model outputs with and without a lead, projected on or off
\* the screen, arriving before or after the drawing context exists and
\* before or after the first calibration.
FarCurve == [k \in 1..TRAJECTORY_SIZE |-> 100 * k]
NearCurve == [k \in 1..TRAJECTORY_SIZE |-> 40 * k]

Model(in, position, lead, vis) ==
  [in EXCEPT !.upd = @ \cup {"modelV2"},
             !.modelV2 = [position |-> position,
                          lane_lines |-> [c \in 1..NumLaneLines |-> FarCurve],
                          road_edges |-> [c \in 1..NumRoadEdges |-> NearCurve],
                          leads |-> <<lead, NoLead>>],
             !.vis = vis]

ModelInputs ==
  {NoInput,
   Model(NoInput, FarCurve, NoLead, VisAll),
   Model(NoInput, NearCurve, [prob |-> 90, x |-> 60], VisAll),
   Model(NoInput, FarCurve, [prob |-> 90, x |-> 60], VisNone),
   Calibration(NoInput, 1),
   Calibration(Model(NoInput, NearCurve, NoLead, VisAll), 2),
   Panda(Device_(NoInput, TRUE), TRUE, FALSE)}

NextModel ==
  \/ sm.frame < MaxFrame /\ \E in \in ModelInputs : Tick(in)
  \/ ui_nvg_init

SpecModel == Init /\ [][NextModel]_vars

Buffers(sc) ==
  <<sc.lane_line_vertices, sc.road_edge_vertices, sc.track_vertices, sc.lead_vertices>>

\* C7 as stated: a tick that ends with no calibration message ever received
\* leaves the vertex buffers and lead vertices as they were.
C7_NoRebuildBeforeCalibration ==
  [][(sm'.frame # sm.frame /\ sm'.rcv_frame.liveCalibration = 0) =>
        Buffers(scene') = Buffers(scene)]_vars

\* C7 as the code has it: a tick changes the vertex buffers or lead vertices
\* only on a model-output update with the drawing context present; whether a
\* calibration was received plays no part, it only keeps
\* world_objects_visible false until the first calibration message.
C7_RebuildNeedsDrawingContext ==
  /\ [][(sm'.frame # sm.frame /\ Buffers(scene') # Buffers(scene)) =>
           ("modelV2" \in ev'.upd /\ ui.vg)]_vars
  /\ [](sm.rcv_frame.liveCalibration = 0 => ~scene.world_objects_visible)

\* A model output rewrote a lead marker with the drawing context present
\* and no calibration ever received.
C7_Witness ==
  /\ ev.tick /\ "modelV2" \in ev.upd /\ ui.vg
  /\ sm.rcv_frame.liveCalibration = 0
  /\ scene.lead_vertices[1] # ZeroVertex
  /\ ~scene.world_objects_visible

\* ------------------------------------------------------------------------
\* Device runs: taps (acceleration and gyro readings that jump together or
\* one at a time), ignition on and off and an onroad start, followed by
\* quiet ticks until the wake countdown has run out.  The readings are whole
\* units apart, in hundredths.  The Device constructor (line 503) gives
\* awake no value, so a run starts with the display on or off.
Sensors(in, a, g) ==
  [in EXCEPT !.upd = @ \cup {"sensorEvents"},
             !.sensorEvents = <<[which |-> "acceleration", has |-> TRUE, v |-> a],
                                [which |-> "gyroUncalibrated", has |-> TRUE, v |-> g]>>]

DeviceInputs ==
  {NoInput,
   Sensors(NoInput, 200, 200), Sensors(NoInput, 0, 0), Sensors(NoInput, 200, 0),
   Panda(NoInput, TRUE, FALSE), Panda(NoInput, FALSE, FALSE),
   Panda(Device_(NoInput, TRUE), TRUE, FALSE)}

InitDeviceRuns ==
  /\ \E b \in BOOLEAN : InitFrom(InitScene(0, 0), [InitDevice EXCEPT !.awake = b])
  /\ call = NoCall

NextDevice ==
  \/ sm.frame < MaxFrameTaps /\ \E in \in DeviceInputs : Tick(in)
  \/ sm.frame >= MaxFrameTaps /\ sm.frame < MaxFrameDevice /\ Tick(NoInput)

SpecDevice == InitDeviceRuns /\ [][NextDevice]_vars

\* C9 as stated: should_wake is true iff onroad, or ignition, or the device
\* is asleep and both tap triggers fire on the tick; a tap while the device
\* is awake (offroad, ignition off) does not reset the countdown.
C9_WakeDecision ==
  ev.tick =>
    /\ ev.should_wake <=>
         \/ scene.started \/ scene.ignition
         \/ ~ev.awake_before /\ ev.accel_trigger /\ ev.gyro_trigger
    /\ (ev.awake_before /\ ~scene.started /\ ~scene.ignition) =>
          device.awake_timeout < AwakeTicks

\* C10: the countdown stays within 0..30*UI_FREQ; a tick takes it to
\* 30*UI_FREQ when the tick has a wake event (should_wake as the code
\* computes it) and otherwise to one less, floored at 0.
C10_CountdownStep ==
  /\ [](device.awake_timeout \in 0..AwakeTicks)
  /\ [][sm'.frame # sm.frame =>
          device'.awake_timeout =
             IF ev'.should_wake THEN AwakeTicks
             ELSE Max(device.awake_timeout - 1, 0)]_vars

\* The countdown was reset by a wake event, ran all the way down and was
\* held at 0 by a further quiet tick.
C10_Witness ==
  /\ ev.tick /\ ~ev.should_wake
  /\ device.awake_timeout = 0
  /\ ~ev.awake_before /\ hw.power_calls = 0
  /\ sm.frame > AwakeTicks + 1

\* C11: a tick's setAwake leaves the flag, the display power and the
\* listeners alone when the requested state is the current one; otherwise it
\* sets the flag, calls the power interface once with the new value and
\* notifies once.  Each power call carries the opposite of the previous one.
C11_SetAwakeOnChangeOnly ==
  /\ [][sm'.frame # sm.frame =>
          IF ev'.on = device.awake
          THEN /\ device'.awake = device.awake
               /\ hw'.power_calls = 0 /\ hw'.notify_calls = 0
               /\ hw'.display_power = hw.display_power
          ELSE /\ device'.awake = ev'.on
               /\ hw'.power_calls = 1 /\ hw'.notify_calls = 1
               /\ hw'.display_power = ev'.on]_vars
  /\ [][(sm'.frame # sm.frame /\ hw'.power_calls = 1) =>
          hw'.display_power # hw.display_power]_vars

\* The display was switched on by a tap and is switched off again, by one
\* power call, on the tick after the countdown ran out.
C11_Witness ==
  /\ ev.tick /\ ev.awake_before /\ ~ev.on /\ ~device.awake
  /\ hw.power_calls = 1 /\ hw.notify_calls = 1 /\ ~hw.display_power
  /\ sm.frame > AwakeTicks

\* C12: after every Device update, a device that is not awake has
\* last_brightness = 0.
C12_AsleepBrightnessZero ==
  (ev.tick /\ ~device.awake) => device.last_brightness = 0

\* ------------------------------------------------------------------------
\* The brightness target on its own: every light estimate, in percent,
\* onroad and offroad.
InitBrightness ==
  /\ InitState(InitScene(0, 0))
  /\ call \in {[op |-> "args", light |-> l, started |-> b, result |-> 0] :
                 l \in 0..MaxLight, b \in BOOLEAN}

CallBrightnessTarget ==
  /\ call.op = "args"
  /\ call' = [call EXCEPT !.op = "BrightnessTarget",
                          !.result = BrightnessTarget(call.light, call.started)]
  /\ Idle

SpecBrightness == InitBrightness /\ [][CallBrightnessTarget]_vars

\* C13: offroad the target is BACKLIGHT_OFFROAD whatever the light estimate;
\* onroad it lies in [10, 100] and no brighter estimate gives a lower
\* target, on either branch of the response curve and across them.
C13_BrightnessTarget ==
  call.op = "BrightnessTarget" =>
    IF ~call.started THEN call.result = 1000 * BACKLIGHT_OFFROAD
    ELSE /\ call.result >= 1000 * BrightnessMin
         /\ call.result <= 1000 * BrightnessMax
         /\ \A l \in 0..MaxLight :
              l >= call.light => BrightnessTarget(l, TRUE) >= call.result
         /\ \A l \in 0..MaxLight :
              l >= call.light => CieResponse(l) >= CieResponse(call.light)

\* An onroad target strictly between the two clamps, on the cubic branch.
C13_Witness ==
  /\ call.op = "BrightnessTarget" /\ call.started
  /\ call.light > CieLinearMax
  /\ call.result > 1000 * BrightnessMin
  /\ call.result < 1000 * BrightnessMax

\* ------------------------------------------------------------------------
\* Staleness runs: hardware-state messages that stop arriving, with the
\* device-state topic going on, for more polls than the staleness limit.
StaleInputs ==
  {NoInput, Panda(NoInput, TRUE, FALSE), Panda(NoInput, FALSE, FALSE),
   Device_(NoInput, TRUE)}

NextStale == sm.frame < MaxFrameStale /\ \E in \in StaleInputs : Tick(in)

SpecStale == Init /\ [][NextStale]_vars

PandaStale(s) == s.frame - s.rcv_frame.pandaState > PandaStaleFactor * UI_FREQ

\* C14: a tick without a hardware-state update sets the hardware type to
\* UNKNOWN when more than 5*UI_FREQ polls have passed since the last receipt
\* and leaves it alone otherwise; either way it leaves ignition alone.
C14_StaleResetsTypeOnly ==
  [][(sm'.frame # sm.frame /\ "pandaState" \notin ev'.upd) =>
        /\ scene'.pandaType =
             IF PandaStale(sm') THEN PandaUnknown ELSE scene.pandaType
        /\ scene'.ignition = scene.ignition]_vars

\* The first stale poll after a hardware-state message with ignition on: the
\* type has gone to UNKNOWN, ignition is still on.
C14_Witness ==
  /\ ev.tick /\ "pandaState" \notin ev.upd
  /\ sm.rcv_frame.pandaState > 0
  /\ sm.frame - sm.rcv_frame.pandaState = PandaStaleFactor * UI_FREQ + 1
  /\ scene.pandaType = PandaUnknown
  /\ scene.ignition /\ scene.started

\* ------------------------------------------------------------------------
\* Gate runs: short and long polls, with and without a vehicle-state update
\* (assist mode active or not), an onroad start that arrives together with
\* a vehicle-state update, and the device going inactive.
GateDts == {1, 60}

GateInputs ==
  {[in EXCEPT !.dt = d] :
     in \in {NoInput, Car(NoInput, 0, TRUE), Car(NoInput, 0, FALSE),
             Car(Panda(Device_(NoInput, TRUE), TRUE, FALSE), 0, TRUE),
             Device_(NoInput, FALSE)},
     d \in GateDts}

NextGate == sm.frame < MaxFrame /\ \E in \in GateInputs : Tick(in)

SpecGate == Init /\ [][NextGate]_vars

\* C15: the assist-mode fade is unchanged by every tick that ends less than
\* 10 s after the most recent onroad transition, and a tick never moves it
\* by more than that tick's elapsed time.
C15_GatedSinceTransition ==
  [][sm'.frame # sm.frame =>
       /\ (scene'.started_frame > 0
             /\ now' - scene'.sessionInitTime < SessionFadeDelay) =>
            scene'.one_pedal_fade = scene.one_pedal_fade
       /\ Abs(scene'.one_pedal_fade - scene.one_pedal_fade) <= ev'.dt]_vars

\* C16: after every completed tick, the first included, the timer interval
\* is 0 when the scene is onroad and the throttled interval 1000 / UI_FREQ
\* when it is offroad; the onroad/offroad signal is emitted on the first tick
\* and on exactly the ticks that change the onroad flag, carrying the new
\* value of the flag.
C16_TickPacing ==
  [][sm'.frame # sm.frame =>
       /\ qui'.timer = (IF scene'.started THEN 0 ELSE 1000 \div UI_FREQ)
       /\ (qui'.offroadTransition # "none") <=>
            (sm'.frame = 1 \/ scene'.started # scene.started)
       /\ qui'.offroadTransition # "none" =>
            qui'.offroadTransition = (IF scene'.started THEN "onroad" ELSE "offroad")]_vars

C16_Witness ==
  /\ ev.tick /\ sm.frame > 1
  /\ ~scene.started /\ scene.started_frame > 0
  /\ qui.offroadTransition = "offroad"
  /\ qui.timer = 1000 \div UI_FREQ

\* ------------------------------------------------------------------------
\* The drawing horizons on their own: trajectories ending short of, within
\* and beyond the drawing range, with a first lead of every probability class
\* at whole-metre distances (in decimetres), one of them negative.
MaxFarStep == 8
MaxLeadM == 25

HorizonFars == {50 * k : k \in 0..MaxFarStep}
LeadDistances == {10 * m : m \in (0 - 1)..MaxLeadM}
LeadProbs == {0, 50, 51, 100}

HorizonModel(far, prob, d) ==
  [position |-> [k \in 1..TRAJECTORY_SIZE |->
                   IF k = TRAJECTORY_SIZE THEN far ELSE (far * k) \div TRAJECTORY_SIZE],
   lane_lines |-> [c \in 1..NumLaneLines |-> FarCurve],
   road_edges |-> [c \in 1..NumRoadEdges |-> NearCurve],
   leads |-> <<[prob |-> prob, x |-> d], NoLead>>]

InitHorizon ==
  /\ InitState(InitScene(0, 0))
  /\ call \in {[op |-> "args", far |-> f, prob |-> p, d |-> d, lane |-> 0, result |-> 0] :
                 f \in HorizonFars, p \in LeadProbs, d \in LeadDistances}

CallPathHorizon ==
  /\ call.op = "args"
  /\ call' = [call EXCEPT
                !.op = "PathHorizon",
                !.lane = LaneHorizon(HorizonModel(call.far, call.prob, call.d)),
                !.result = PathHorizon(HorizonModel(call.far, call.prob, call.d))]
  /\ Idle

SpecHorizon == InitHorizon /\ [][CallPathHorizon]_vars

\* C17: with H the far endpoint of the trajectory clamped to the drawing
\* range, the path horizon is clamp(2d - min(0.35 * 2d, 10 m), 0, H) when the
\* first lead has probability above 0.5 at a distance d >= 0, and H when its
\* probability is not above 0.5; it always lies in [0, H], H being the
\* horizon of lane lines and road edges.  Distances in decimetres: 10 m is
\* 100, and 0.35 * 2d is 7d / 10, whole for whole-metre d.
C17_PathHorizon ==
  call.op = "PathHorizon" =>
    LET H == IF call.far < MIN_DRAW_DISTANCE THEN MIN_DRAW_DISTANCE
             ELSE IF call.far > MAX_DRAW_DISTANCE THEN MAX_DRAW_DISTANCE
             ELSE call.far
        cut == IF 7 * call.d < 1000 THEN 7 * call.d ELSE 1000
        short == (20 * call.d - cut) \div 10
    IN  /\ call.lane = H
        /\ (call.prob > 50 /\ call.d >= 0) =>
              call.result = (IF short > H THEN H ELSE short)
        /\ call.prob <= 50 => call.result = H
        /\ call.result >= 0
        /\ call.result <= H

\* A lead at 15 m, where the shortening is capped at 10 m: 2 * 15 - 10 = 20 m,
\* below the horizon of a trajectory that reaches the far end of the range.
C17_Witness ==
  /\ call.op = "PathHorizon"
  /\ call.prob > 50 /\ call.d = 150
  /\ call.far >= MAX_DRAW_DISTANCE
  /\ call.result = 200
  /\ call.result < call.lane

\* ------------------------------------------------------------------------
\* Warm-up runs: the onroad switch during the first polls, then driving only,
\* long enough for the write index to wrap twice.
MaxFrameSwitch == 3
MaxFrameWarm == 13

WarmDriveInputs ==
  {Altitude(Drive(NoInput, c[1]), c[2]) : c \in {<<2, 0>>, <<3, 1>>}}

NextWarm ==
  \/ sm.frame < MaxFrameSwitch /\ \E in \in GradeInputs : Tick(in)
  \/ /\ sm.frame >= MaxFrameSwitch /\ sm.frame < MaxFrameWarm
     /\ \E in \in WarmDriveInputs : Tick(in)

SpecWarm == Init /\ [][NextWarm]_vars

\* C18: while the buffer has not filled since the last reset the published
\* mean stays 0; the flag of the filled buffer rises on exactly the insertion
\* at which the write index first wraps, where the mean and the grades are
\* those of the full N-ratio computation followed by the update of the slot
\* written; every later insertion, later wraps included, changes the grade
\* of the slot written only and moves the mean by the change of that grade
\* over N; and the flag falls only on a reset.
C18_GradeWarmUp ==
  /\ [][(sm'.frame # sm.frame /\ scene'.started = scene.started) =>
          LET N == percentGradeNumSamples
              it == scene'.percentGradeRollingIter
              inserted == it # scene.percentGradeRollingIter
              firstWrap == inserted /\ it = 0 /\ ~scene.percentGradeIterRolled
              full == InitialGrades(scene.percentGradeAltitudes,
                                    scene.percentGradePositions,
                                    scene.percentGrades)
          IN  /\ ~scene'.percentGradeIterRolled => scene'.percentGrade = RZero
              /\ (scene'.percentGradeIterRolled # scene.percentGradeIterRolled)
                    <=> firstWrap
              /\ firstWrap =>
                    /\ \A i \in GradeSlots \ {it} :
                          scene'.percentGrades[i] = full.grades[i]
                    /\ scene'.percentGrade =
                          RAdd(RSub(full.mean, RDivInt(full.grades[it], N)),
                               RDivInt(scene'.percentGrades[it], N))
              /\ (inserted /\ scene.percentGradeIterRolled) =>
                    /\ \A i \in GradeSlots \ {it} :
                          scene'.percentGrades[i] = scene.percentGrades[i]
                    /\ scene'.percentGrade =
                          RAdd(RSub(scene.percentGrade,
                                    RDivInt(scene.percentGrades[it], N)),
                               RDivInt(scene'.percentGrades[it], N))]_vars
  /\ [][(scene.percentGradeIterRolled /\ ~scene'.percentGradeIterRolled) =>
          (~scene.started /\ scene'.started)]_vars

\* The write index has wrapped a second time (more distance than one pass of
\* the buffer can cover), and the mean is not what a full computation over
\* the buffer would give.
C18_Witness ==
  /\ ev.tick
  /\ scene.percentGradeIterRolled
  /\ scene.percentGradeRollingIter = 0
  /\ scene.percentGradeCurDist = 0
  /\ scene.percentGradePositions[0] >= 4 * percentGradeNumSamples
  /\ RunsNonZero(scene)
  /\ scene.percentGrade # FullRecompute(scene)

\* ------------------------------------------------------------------------
\* Session runs: the onroad switch alone or on the poll that also delivers an
\* engaged control state, control-state updates on their own, a grade sample,
\* and polls one or two time units apart.
SessionDts == {1, 2}

SessionInputs ==
  {[in EXCEPT !.dt = d] :
     in \in {NoInput,
             Panda(Device_(NoInput, TRUE), TRUE, FALSE),
             Controls(Panda(Device_(NoInput, TRUE), TRUE, FALSE), "NORMAL", TRUE),
             Controls(NoInput, "NORMAL", TRUE),
             Controls(NoInput, "CRITICAL", FALSE),
             Panda(NoInput, FALSE, FALSE),
             Device_(NoInput, FALSE),
             Altitude(Drive(NoInput, 3), 1)},
     d \in SessionDts}

NextSession == sm.frame < MaxFrame /\ \E in \in SessionInputs : Tick(in)

SpecSession == Init /\ [][NextSession]_vars

GradeState(sc) ==
  <<sc.percentGrade, sc.percentGradeAltitudes, sc.percentGradePositions,
    sc.percentGrades, sc.percentGradeIterRolled, sc.percentGradeRollingIter>>

\* C19: a tick on which started goes false -> true ends with status
\* DISENGAGED whatever control state it delivered, started_frame equal to the
\* poll index, the session start time equal to the time of the tick and the
\* rolling-grade state empty; every other tick leaves started_frame and the
\* session start time alone, leaves the rolling-grade state as the
\* vehicle-state handling produced it, and leaves status as it was unless it
\* is onroad and delivers a control state, which then decides it.
C19_SessionSetupOncePerEdge ==
  [][sm'.frame # sm.frame =>
       IF ~scene.started /\ scene'.started
       THEN /\ ui'.status = STATUS_DISENGAGED
            /\ scene'.started_frame = sm'.frame
            /\ scene'.sessionInitTime = now'
            /\ GradeEmpty(scene')
       ELSE /\ scene'.started_frame = scene.started_frame
            /\ scene'.sessionInitTime = scene.sessionInitTime
            /\ GradeState(scene') = GradeState(ev'.pre.scene)
            /\ ui'.status =
                  (IF scene'.started /\ "controlsState" \in ev'.upd
                   THEN (IF sm'.controlsState.alert = "USER_PROMPT" THEN STATUS_WARNING
                         ELSE IF sm'.controlsState.alert = "CRITICAL" THEN STATUS_ALERT
                         ELSE IF sm'.controlsState.enabled THEN STATUS_ENGAGED
                         ELSE STATUS_DISENGAGED)
                   ELSE ui.status)]_vars

\* A second session begins on a poll that also delivered an engaged control
\* state, after a grade sample had been recorded: the status the control
\* state gave is overridden and the sample is gone.
C19_Witness ==
  /\ ev.tick /\ scene.started
  /\ ~ev.pre.ui.started_prev
  /\ ev.pre.ui.status = STATUS_ENGAGED
  /\ ~GradeEmpty(ev.pre.scene)
  /\ ev.pre.scene.started_frame > 0
  /\ ui.status = STATUS_DISENGAGED
  /\ scene.started_frame = sm.frame
  /\ scene.sessionInitTime = now /\ now > sm.frame
  /\ GradeEmpty(scene)

\* ------------------------------------------------------------------------
\* update_model on its own: model outputs whose trajectory, lane lines and
\* road edges are sampled on grids of different spacing (in decimetres),
\* every point projected inside the margin or none.
MaxSpacing == 6

TruncCurves ==
  {[k \in 1..TRAJECTORY_SIZE |-> 20 * sp * k] : sp \in 2..MaxSpacing}

InitTruncate ==
  /\ InitState(InitScene(0, 0))
  /\ call \in {[op |-> "args",
                 model |-> [position |-> p, lane_lines |-> ll, road_edges |-> re,
                            leads |-> <<NoLead, NoLead>>],
                 vis |-> vis,
                 lane_line_vertices |-> <<>>, road_edge_vertices |-> <<>>] :
                 p \in TruncCurves,
                 ll \in [1..NumLaneLines -> TruncCurves],
                 re \in [1..NumRoadEdges -> TruncCurves],
                 vis \in {VisAll, VisNone}}

CallUpdateModel ==
  /\ call.op = "args"
  /\ call' = [call EXCEPT
                !.op = "update_model",
                !.lane_line_vertices =
                   update_model(scene, call.model, call.vis).lane_line_vertices,
                !.road_edge_vertices =
                   update_model(scene, call.model, call.vis).road_edge_vertices]
  /\ Idle

SpecTruncate == InitTruncate /\ [][CallUpdateModel]_vars

\* C20: after a model update the polygon of every lane line and of every
\* road edge is the one built from the points 0..k_c of that curve, k_c
\* being the last index of the curve itself whose forward distance is below
\* the horizon of the update.
C20_OwnTruncationIndex ==
  call.op = "update_model" =>
    LET H == LaneHorizon(call.model)
        Own(c) == Stored(update_line_data(scene.view_from_calib, c, call.vis,
                                          get_path_length_idx(c, H)))
    IN  /\ \A c \in 1..NumLaneLines :
              call.lane_line_vertices[c] = Own(call.model.lane_lines[c])
        /\ \A c \in 1..NumRoadEdges :
              call.road_edge_vertices[c] = Own(call.model.road_edges[c])

\* ------------------------------------------------------------------------
\* C21: after every Device update awake is (the countdown after the tick's
\* decrement and before its reset) > 0; the tick after a tick with a wake
\* event (should_wake as the code computes it) ends awake, whether or not
\* it has a wake event itself; and from the first to the
\* (30 * UI_FREQ - 1)-th consecutive tick without a wake event the device is
\* awake, on the (30 * UI_FREQ)-th and later ones it is not.
C21_WakeLatencyAndDeadline ==
  /\ [][sm'.frame # sm.frame =>
          device'.awake =
            ((IF device.awake_timeout - 1 > 0 THEN device.awake_timeout - 1 ELSE 0) > 0)]_vars
  /\ [][(sm'.frame # sm.frame /\ ev.tick /\ ev.should_wake) => device'.awake]_vars
  /\ []((ev.tick /\ ev.quiet >= 1) =>
          (device.awake <=> ev.quiet < 30 * UI_FREQ))

\* The display goes off on the (30 * UI_FREQ)-th tick after the last wake
\* event, having been on until then.
C21_Witness ==
  /\ ev.tick
  /\ ev.quiet = 30 * UI_FREQ
  /\ ev.awake_before
  /\ ~device.awake

\* ------------------------------------------------------------------------
\* Backlight runs: an onroad start and the ignition going off, with the
\* detached set_brightness threads of line 550 running at any later moment,
\* in any order.
MaxFrameBacklight == 6

BacklightInputs ==
  {NoInput, Panda(Device_(NoInput, TRUE), TRUE, FALSE), Panda(NoInput, FALSE, FALSE)}

\* One detached thread runs Hardware::set_brightness with its value.
SetBrightnessThread ==
  /\ \E v \in BagToSet(hw.pending) :
        hw' = [hw EXCEPT !.brightness = v, !.pending = @ (-) SetToBag({v})]
  /\ UNCHANGED <<now, sm, scene, ui, qui, device, ev, call>>

NextBacklight ==
  \/ sm.frame < MaxFrameBacklight /\ \E in \in BacklightInputs : Tick(in)
  \/ SetBrightnessThread

SpecBacklight == Init /\ [][NextBacklight]_vars

\* C22: a tick starts a hardware write iff the brightness it computed
\* differs from the one the previous tick computed; and whatever the order
\* in which the write threads run, once the last tick has left the computed
\* brightness as it was and every thread has run, the backlight holds the
\* last computed brightness.
C22_WritesInOrder ==
  /\ [][sm'.frame # sm.frame =>
          ((hw'.issued = 1) <=> (device'.last_brightness # device.last_brightness))]_vars
  /\ []((ev.tick /\ hw.issued = 0 /\ hw.pending = EmptyBag /\ hw.brightness >= 0) =>
          hw.brightness = device.last_brightness)

====
